---- MODULE Spec2Model ----
(***************************************************************************)
(* The game-state ledger of rschess (src/src/board.rs): struct Board and   *)
(* its operations, over the position evaluator it calls into.              *)
(*                                                                         *)
(* The evaluator (Position, Move, Fen, helpers) is not part of board.rs.   *)
(* It is modelled here from the interface the specification gives it, on a *)
(* one-file board of eight squares with kings, knights, rooks and pawns:   *)
(* small enough to enumerate, and with real check, checkmate, stalemate,   *)
(* capture, pawn-move and insufficient-material cases.                     *)
(***************************************************************************)
EXTENDS Integers, Sequences, FiniteSets, TLC

White == "White"
Black == "Black"
Color == {White, Black}
None == "None"

\* Color: std::ops::Not
Opp(c) == IF c = White THEN Black ELSE White

-----------------------------------------------------------------------------
(* Position evaluator: content and side, on squares 1..8 of one file.      *)

Squares == 1 .. 8
Empty == <<>>
Pc(t, c) == <<t, c>>
WK == Pc("K", White)
WN == Pc("N", White)
WR == Pc("R", White)
WP == Pc("P", White)
BK == Pc("K", Black)
BN == Pc("N", Black)
BR == Pc("R", Black)
BP == Pc("P", Black)

Position(side, content) == [side |-> side, content |-> content]

Abs(x) == IF x < 0 THEN -x ELSE x

\* every square strictly between a and b is empty
ClearBetween(content, a, b) ==
    \A s \in Squares : ((a < s /\ s < b) \/ (b < s /\ s < a)) => content[s] = Empty

\* the piece on s attacks square t (pawns attack diagonally: never on one file)
Attacks(content, s, t) ==
    /\ content[s] # Empty
    /\ s # t
    /\ CASE content[s][1] = "K" -> Abs(s - t) = 1
         [] content[s][1] = "N" -> Abs(s - t) = 2
         [] content[s][1] = "R" -> ClearBetween(content, s, t)
         [] OTHER -> FALSE

IsAttacked(content, t, by) ==
    \E s \in Squares : content[s] # Empty /\ content[s][2] = by /\ Attacks(content, s, t)

KingSquare(content, c) == CHOOSE s \in Squares : content[s] = Pc("K", c)

InCheck(content, c) == IsAttacked(content, KingSquare(content, c), Opp(c))

\* Move(src, dest)
Move(src, dest) == <<src, dest>>

PawnDir(c) == IF c = White THEN 1 ELSE -1

\* a move of the side to move that obeys the piece's movement rule
\* (a pawn steps one square forward onto an empty square short of the last rank)
PseudoLegal(pos, m) ==
    LET src == m[1]
        dest == m[2]
        p == pos.content[src]
    IN  /\ p # Empty
        /\ p[2] = pos.side
        /\ src # dest
        /\ \/ pos.content[dest] = Empty
           \/ pos.content[dest][2] # pos.side
        /\ IF p[1] = "P"
           THEN /\ dest = src + PawnDir(pos.side)
                /\ pos.content[dest] = Empty
                /\ dest \notin {1, 8}
           ELSE Attacks(pos.content, src, dest)

\* Position::with_move_made
with_move_made(pos, m) ==
    [side |-> Opp(pos.side),
     content |-> [s \in Squares |->
                    IF s = m[1] THEN Empty
                    ELSE IF s = m[2] THEN pos.content[m[1]]
                    ELSE pos.content[s]]]

\* Position::gen_non_illegal_moves
gen_non_illegal_moves(pos) ==
    {m \in Squares \X Squares :
        /\ PseudoLegal(pos, m)
        /\ ~InCheck(with_move_made(pos, m).content, pos.side)}

\* Position::is_check / checked_side
position_is_check(pos) == InCheck(pos.content, pos.side)

\* Position::is_checkmate
position_is_checkmate(pos) ==
    position_is_check(pos) /\ gen_non_illegal_moves(pos) = {}

\* Position::is_stalemate
position_is_stalemate(pos) ==
    ~position_is_check(pos) /\ gen_non_illegal_moves(pos) = {}

\* Position::checkmated_side
position_checkmated_side(pos) ==
    IF position_is_checkmate(pos) THEN pos.side ELSE None

\* Position::stalemated_side
position_stalemated_side(pos) ==
    IF position_is_stalemate(pos) THEN pos.side ELSE None

\* Position::is_insufficient_material: king against king, or king and knight
\* against king (no bishops stand on this board)
position_is_insufficient_material(pos) ==
    LET others == {s \in Squares : pos.content[s] # Empty /\ pos.content[s][1] # "K"}
    IN  \/ others = {}
        \/ /\ Cardinality(others) = 1
           /\ \A s \in others : pos.content[s][1] = "N"

\* helpers::as_legal: the legal move equal to the candidate, if any
as_legal(move_, legal) == IF move_ \in legal THEN move_ ELSE None

\* Fen { position, halfmove_clock, fullmove_number }
Fen(pos, hc, fn) == [position |-> pos, halfmove_clock |-> hc, fullmove_number |-> fn]

-----------------------------------------------------------------------------
(* Notation: a UCI string is a sequence of characters, two square names;   *)
(* a SAN string is a piece letter followed by the destination square name. *)

sq_to_idx == [ch \in {"1", "2", "3", "4", "5", "6", "7", "8"} |->
                CASE ch = "1" -> 1 [] ch = "2" -> 2 [] ch = "3" -> 3 [] ch = "4" -> 4
                  [] ch = "5" -> 5 [] ch = "6" -> 6 [] ch = "7" -> 7 [] ch = "8" -> 8]

\* Move::from_uci
from_uci(uci) ==
    IF Len(uci) = 2 /\ uci[1] \in DOMAIN sq_to_idx /\ uci[2] \in DOMAIN sq_to_idx
    THEN Move(sq_to_idx[uci[1]], sq_to_idx[uci[2]])
    ELSE None

idx_to_sq == [i \in Squares |->
                CASE i = 1 -> "1" [] i = 2 -> "2" [] i = 3 -> "3" [] i = 4 -> "4"
                  [] i = 5 -> "5" [] i = 6 -> "6" [] i = 7 -> "7" [] i = 8 -> "8"]

\* Position::move_to_san: the letter of the piece that moves and the name of
\* the square it moves to, read in the position the move is played from
position_move_to_san(pos, m) == <<pos.content[m[1]][1], idx_to_sq[m[2]]>>

\* Position::san_to_move: the one move of the position that the text denotes
position_san_to_move(pos, san) ==
    IF Len(san) = 2 /\ san[1] \in {"K", "N", "R", "P"} /\ san[2] \in DOMAIN sq_to_idx
    THEN LET cands == {m \in gen_non_illegal_moves(pos) :
                          /\ pos.content[m[1]][1] = san[1]
                          /\ m[2] = sq_to_idx[san[2]]}
         IN  IF Cardinality(cands) = 1 THEN CHOOSE m \in cands : TRUE ELSE None
    ELSE None

-----------------------------------------------------------------------------
(* struct Board and its operations.  An operation that can fail returns    *)
(* the board it leaves behind together with its result.                    *)

Ret(b, r) == [board |-> b, res |-> r]

\* the number of entries of position_history equal to the current position
\* (the fold of is_threefold_repetition / is_fivefold_repetition)
RepetitionCount(b) ==
    Cardinality({i \in DOMAIN b.position_history : b.position_history[i] = b.position})

is_threefold_repetition(b) == RepetitionCount(b) = 3

is_fivefold_repetition(b) == RepetitionCount(b) = 5

is_fifty_move_rule(b) == b.halfmove_clock = 100

is_seventy_five_move_rule(b) == b.halfmove_clock = 150

is_stalemate(b) == position_is_stalemate(b.position)

is_insufficient_material(b) == position_is_insufficient_material(b.position)

is_checkmate(b) == position_is_checkmate(b.position)

stalemated_side(b) == position_stalemated_side(b.position)

checkmated_side(b) == position_checkmated_side(b.position)

side_to_move(b) == b.position.side

\* update_status without the seventy-five-move rule
update_status_without_clock(b) ==
    IF \/ is_fivefold_repetition(b)
       \/ is_stalemate(b)
       \/ is_insufficient_material(b)
       \/ is_checkmate(b)
    THEN [b EXCEPT !.ongoing = FALSE]
    ELSE b

\* update_status without fivefold repetition
update_status_without_fivefold(b) ==
    IF \/ is_seventy_five_move_rule(b)
       \/ is_stalemate(b)
       \/ is_insufficient_material(b)
       \/ is_checkmate(b)
    THEN [b EXCEPT !.ongoing = FALSE]
    ELSE b

update_status(b) ==
    IF \/ is_fivefold_repetition(b)
       \/ is_seventy_five_move_rule(b)
       \/ is_stalemate(b)
       \/ is_insufficient_material(b)
       \/ is_checkmate(b)
    THEN [b EXCEPT !.ongoing = FALSE]
    ELSE b

from_fen(fen) ==
    update_status(
        [position |-> fen.position,
         halfmove_clock |-> fen.halfmove_clock,
         fullmove_number |-> fen.fullmove_number,
         ongoing |-> fen.halfmove_clock < 150,
         position_history |-> <<>>,
         move_history |-> <<>>,
         halfmove_clock_history |-> <<>>,
         initial_fen |-> fen,
         resigned_side |-> None,
         draw_agreed |-> FALSE])

to_fen(b) == Fen(b.position, b.halfmove_clock, b.fullmove_number)

\* gen_legal_moves without the test of ongoing
gen_legal_moves_ignoring_ongoing(b) == gen_non_illegal_moves(b.position)

gen_legal_moves(b) ==
    IF b.ongoing THEN gen_non_illegal_moves(b.position) ELSE {}

is_legal(b, move_) == as_legal(move_, gen_legal_moves(b)) # None

\* Board::san_to_move: "Ok" with the move, or InvalidSanMoveError
san_to_move(b, san) ==
    LET m == position_san_to_move(b.position, san)
    IN  IF m # None /\ is_legal(b, m) THEN m ELSE None

\* make_move with one of its steps changed: fullmove_number advanced after a
\* move by white instead of black ("white"), the clock pushed to
\* halfmove_clock_history after its update instead of before ("newclock")
make_move_variant(b, move_, which) ==
    LET legal == as_legal(move_, gen_legal_moves(b))
    IN  IF legal = None
        THEN Ret(b, "IllegalMove")
        ELSE LET counted == IF which = "white" THEN White ELSE Black
                 fullmove_number ==
                     b.fullmove_number + (IF b.position.side = counted THEN 1 ELSE 0)
                 moved_piece == b.position.content[legal[1]]
                 dest_occ == b.position.content[legal[2]]
                 halfmove_clock ==
                     IF (moved_piece # Empty /\ moved_piece[1] = "P") \/ dest_occ # Empty
                     THEN 0
                     ELSE b.halfmove_clock + 1
                 pushed == IF which = "newclock" THEN halfmove_clock ELSE b.halfmove_clock
             IN  Ret(update_status(
                         [b EXCEPT !.position_history = Append(@, b.position),
                                   !.position = with_move_made(b.position, legal),
                                   !.move_history = Append(@, legal),
                                   !.halfmove_clock_history = Append(@, pushed),
                                   !.halfmove_clock = halfmove_clock,
                                   !.fullmove_number = fullmove_number]),
                     "Ok")

make_move_counting_white(b, move_) == make_move_variant(b, move_, "white")
make_move_pushing_new_clock(b, move_) == make_move_variant(b, move_, "newclock")

make_move(b, move_) ==
    LET legal == as_legal(move_, gen_legal_moves(b))
    IN  IF legal = None
        THEN Ret(b, "IllegalMove")
        ELSE LET fullmove_number ==
                     b.fullmove_number + (IF b.position.side = Black THEN 1 ELSE 0)
                 moved_piece == b.position.content[legal[1]]
                 dest_occ == b.position.content[legal[2]]
                 halfmove_clock ==
                     IF (moved_piece # Empty /\ moved_piece[1] = "P") \/ dest_occ # Empty
                     THEN 0
                     ELSE b.halfmove_clock + 1
             IN  Ret(update_status(
                         [b EXCEPT !.position_history = Append(@, b.position),
                                   !.position = with_move_made(b.position, legal),
                                   !.move_history = Append(@, legal),
                                   !.halfmove_clock_history = Append(@, b.halfmove_clock),
                                   !.halfmove_clock = halfmove_clock,
                                   !.fullmove_number = fullmove_number]),
                     "Ok")

\* make_move_uci reporting a rejected move as it reports a string that is no move
make_move_uci_one_error(b, uci) ==
    LET move_ == from_uci(uci)
    IN  IF move_ = None
        THEN Ret(b, "InvalidUci")
        ELSE LET r == make_move(b, move_)
             IN  IF r.res = "Ok" THEN r ELSE Ret(r.board, "InvalidUci")

make_move_uci(b, uci) ==
    LET move_ == from_uci(uci)
    IN  IF move_ = None
        THEN Ret(b, "InvalidUci")
        ELSE LET r == make_move(b, move_)
             IN  IF r.res = "Ok" THEN r ELSE Ret(r.board, "IllegalMoveUci")

make_move_san(b, san) ==
    LET move_ == san_to_move(b, san)
    IN  IF move_ = None
        THEN Ret(b, "InvalidSanMove")
        ELSE LET r == make_move(b, move_)
             IN  IF r.res = "Ok" THEN r ELSE Ret(r.board, "InvalidSanMove")

\* the loop of make_moves_uci over the scratch board: the first error ends it
RECURSIVE uci_loop(_, _)
uci_loop(scratch, line) ==
    IF line = <<>>
    THEN Ret(scratch, "Ok")
    ELSE LET r == make_move_uci(scratch, Head(line))
         IN  IF r.res # "Ok" THEN r ELSE uci_loop(r.board, Tail(line))

\* make_moves_uci playing the line on the board itself, with no scratch copy
make_moves_uci_in_place(b, line) == uci_loop(b, line)

make_moves_uci(b, line) ==
    LET r == uci_loop(b, line)
    IN  IF r.res = "Ok" THEN Ret(r.board, "Ok") ELSE Ret(b, r.res)

RECURSIVE san_loop(_, _)
san_loop(scratch, line) ==
    IF line = <<>>
    THEN Ret(scratch, "Ok")
    ELSE LET r == make_move_san(scratch, Head(line))
         IN  IF r.res # "Ok" THEN r ELSE san_loop(r.board, Tail(line))

make_moves_san(b, line) ==
    LET r == san_loop(b, line)
    IN  IF r.res = "Ok" THEN Ret(r.board, "Ok") ELSE Ret(b, r.res)

\* undo_move with one of its steps changed: the side that decides the
\* decrement ("after": the side to move of the restored position), the
\* halfmove clock left as it is ("clock"), halfmove_clock_history not popped
\* ("pop"), resigned_side not cleared ("resigned"), the flags reset before the
\* test of move_history ("reset")
undo_move_variant(b, which) ==
    IF b.move_history = <<>>
    THEN Ret(IF which = "reset"
             THEN [b EXCEPT !.ongoing = TRUE, !.resigned_side = None, !.draw_agreed = FALSE]
             ELSE b,
             "NoMovesPlayed")
    ELSE LET n == Len(b.move_history)
             decides == IF which = "after"
                        THEN b.position_history[Len(b.position_history)].side
                        ELSE side_to_move(b)
         IN  Ret([b EXCEPT
                    !.fullmove_number = @ - (IF decides = White THEN 1 ELSE 0),
                    !.move_history = SubSeq(@, 1, n - 1),
                    !.position = b.position_history[Len(b.position_history)],
                    !.position_history = SubSeq(@, 1, Len(@) - 1),
                    !.halfmove_clock =
                        IF which = "clock" THEN @
                        ELSE b.halfmove_clock_history[Len(b.halfmove_clock_history)],
                    !.halfmove_clock_history =
                        IF which = "pop" THEN @ ELSE SubSeq(@, 1, Len(@) - 1),
                    !.ongoing = TRUE,
                    !.resigned_side = IF which = "resigned" THEN @ ELSE None,
                    !.draw_agreed = FALSE],
                 "Ok")

undo_move_side_after(b) == undo_move_variant(b, "after")
undo_move_clock_kept(b) == undo_move_variant(b, "clock")
undo_move_partial_pop(b) == undo_move_variant(b, "pop")
undo_move_resignation_kept(b) == undo_move_variant(b, "resigned")
undo_move_reset_first(b) == undo_move_variant(b, "reset")

undo_move(b) ==
    IF b.move_history = <<>>
    THEN Ret(b, "NoMovesPlayed")
    ELSE LET n == Len(b.move_history)
         IN  Ret([b EXCEPT
                    !.fullmove_number = @ - (IF side_to_move(b) = White THEN 1 ELSE 0),
                    !.move_history = SubSeq(@, 1, n - 1),
                    !.position = b.position_history[Len(b.position_history)],
                    !.position_history = SubSeq(@, 1, Len(@) - 1),
                    !.halfmove_clock = b.halfmove_clock_history[Len(b.halfmove_clock_history)],
                    !.halfmove_clock_history = SubSeq(@, 1, Len(@) - 1),
                    !.ongoing = TRUE,
                    !.resigned_side = None,
                    !.draw_agreed = FALSE],
                 "Ok")

\* resign without the test of ongoing
resign_unguarded(b, side) ==
    Ret([b EXCEPT !.ongoing = FALSE, !.resigned_side = side], "Ok")

resign(b, side) ==
    IF ~b.ongoing
    THEN Ret(b, "GameOverError::Resignation")
    ELSE Ret([b EXCEPT !.ongoing = FALSE, !.resigned_side = side], "Ok")

\* agree_draw without the test of ongoing
agree_draw_unguarded(b) ==
    Ret([b EXCEPT !.ongoing = FALSE, !.draw_agreed = TRUE], "Ok")

agree_draw(b) ==
    IF ~b.ongoing
    THEN Ret(b, "GameOverError::AgreementDraw")
    ELSE Ret([b EXCEPT !.ongoing = FALSE, !.draw_agreed = TRUE], "Ok")

is_ongoing(b) == b.ongoing

\* game_result: None, the result, or "panic" where the source panics
game_result(b) ==
    IF b.ongoing THEN None
    ELSE IF b.draw_agreed THEN <<"Draw", "Agreement">>
    ELSE IF b.resigned_side # None THEN <<"Wins", Opp(b.resigned_side), "Resignation">>
    ELSE IF checkmated_side(b) = Black THEN <<"Wins", White, "Checkmate">>
    ELSE IF checkmated_side(b) = White THEN <<"Wins", Black, "Checkmate">>
    ELSE IF stalemated_side(b) # None THEN <<"Draw", "Stalemate", stalemated_side(b)>>
    ELSE IF is_fivefold_repetition(b) THEN <<"Draw", "FivefoldRepetition">>
    ELSE IF is_seventy_five_move_rule(b) THEN <<"Draw", "SeventyFiveMoveRule">>
    ELSE IF is_insufficient_material(b) THEN <<"Draw", "InsufficientMaterial">>
    ELSE "panic"

\* the loop of gen_movetext from index movei on; the movetext is the sequence
\* of its words: <<N, ".">> for "N.", <<N, "...">> for "N...", and the SAN texts
RECURSIVE movetext_loop(_, _, _, _)
movetext_loop(b, movei, current_side, current_fullmove_number) ==
    IF movei > Len(b.move_history)
    THEN <<>>
    ELSE LET pos == b.position_history[movei]
             san == position_move_to_san(pos, b.move_history[movei])
         IN  IF current_side = Black
             THEN (IF movei = 1 THEN <<<<current_fullmove_number, "...">>, san>> ELSE <<san>>)
                  \o movetext_loop(b, movei + 1, Opp(current_side), current_fullmove_number + 1)
             ELSE <<<<current_fullmove_number, ".">>, san>>
                  \o movetext_loop(b, movei + 1, Opp(current_side), current_fullmove_number)

\* gen_movetext taking white to have made the first recorded move
gen_movetext_white_first(b) ==
    movetext_loop(b, 1, White, b.initial_fen.fullmove_number)

gen_movetext(b) ==
    movetext_loop(b, 1, b.initial_fen.position.side, b.initial_fen.fullmove_number)

-----------------------------------------------------------------------------
(* The state machine: one board, driven by its public operations.          *)

VARIABLES
    board,   \* the Board
    last,    \* the last operation called: its name, argument and result
    pre      \* the board as it was when the last operation was called

vars == <<board, last, pre>>

\* bounds of the exploration
MaxHist == 20
MaxLine == 2

\* the snapshots a game is constructed from
ShufflePos(side) == Position(side, <<WK, WN, Empty, Empty, Empty, Empty, BN, BK>>)
MatePos == Position(White, <<WK, Empty, WR, WN, Empty, Empty, Empty, BK>>)
StalePos == Position(Black, <<WK, Empty, BK, Empty, BN, BP, Empty, Empty>>)
PawnPos(side) == Position(side, <<WK, WN, Empty, BP, Empty, Empty, Empty, BK>>)
BareKingsPos == Position(White, <<WK, Empty, Empty, Empty, Empty, Empty, Empty, BK>>)
MatedPos == Position(Black, <<WK, Empty, WR, Empty, Empty, Empty, Empty, BK>>)

InitialFens ==
    {Fen(ShufflePos(White), 0, 1),
     Fen(ShufflePos(Black), 0, 1),
     Fen(ShufflePos(White), 98, 60),
     Fen(ShufflePos(White), 134, 90),
     Fen(ShufflePos(White), 148, 90),
     Fen(ShufflePos(Black), 149, 90),
     Fen(ShufflePos(White), 150, 90),
     Fen(ShufflePos(White), 151, 90),
     Fen(MatePos, 3, 12),
     Fen(MatePos, 149, 90),
     Fen(StalePos, 3, 12),
     Fen(StalePos, 149, 90),
     Fen(PawnPos(White), 5, 20),
     Fen(PawnPos(Black), 149, 20),
     Fen(BareKingsPos, 0, 30),
     Fen(MatedPos, 1, 30)}

\* the arguments the operations are called with
MoveInputs == {Move(2, 4), Move(4, 2), Move(7, 5), Move(5, 7), Move(4, 3), Move(1, 1)}
UciInputs == {<<"2", "4">>, <<"4", "2">>, <<"7", "5">>, <<"5", "7">>, <<"4", "3">>,
              <<"1", "1">>, <<"x", "4">>}
SanInputs == {<<"N", "4">>, <<"N", "2">>, <<"N", "5">>, <<"N", "7">>, <<"P", "3">>,
              <<"K", "8">>, <<"Q", "4">>}
UciLineTokens == {<<"2", "4">>, <<"7", "5">>, <<"x", "4">>}
SanLineTokens == {<<"N", "4">>, <<"N", "5">>}

SeqsUpTo(S, n) == UNION {[1 .. k -> S] : k \in 0 .. n}

Called(op, arg, r) == [op |-> op, arg |-> arg, res |-> r.res]

Init ==
    /\ board \in {from_fen(fen) : fen \in InitialFens}
    /\ last = [op |-> "from_fen", arg |-> <<>>, res |-> "Ok"]
    /\ pre = board

Step(op, arg, r) ==
    /\ board' = r.board
    /\ last' = Called(op, arg, r)
    /\ pre' = board

MakeMove ==
    \E move_ \in MoveInputs :
        /\ Len(board.move_history) < MaxHist
        /\ Step("make_move", <<move_>>, make_move(board, move_))

MakeMoveUci ==
    \E uci \in UciInputs :
        /\ Len(board.move_history) < MaxHist
        /\ Step("make_move_uci", <<uci>>, make_move_uci(board, uci))

MakeMoveSan ==
    \E san \in SanInputs :
        /\ Len(board.move_history) < MaxHist
        /\ Step("make_move_san", <<san>>, make_move_san(board, san))

MakeMovesUci ==
    \E line \in SeqsUpTo(UciLineTokens, MaxLine) :
        /\ Len(board.move_history) + Len(line) <= MaxHist
        /\ Step("make_moves_uci", line, make_moves_uci(board, line))

MakeMovesSan ==
    \E line \in SeqsUpTo(SanLineTokens, MaxLine) :
        /\ Len(board.move_history) + Len(line) <= MaxHist
        /\ Step("make_moves_san", line, make_moves_san(board, line))

UndoMove == Step("undo_move", <<>>, undo_move(board))

Resign == \E side \in Color : Step("resign", <<side>>, resign(board, side))

AgreeDraw == Step("agree_draw", <<>>, agree_draw(board))

Next ==
    \/ MakeMove
    \/ MakeMoveUci
    \/ MakeMoveSan
    \/ MakeMovesUci
    \/ MakeMovesSan
    \/ UndoMove
    \/ Resign
    \/ AgreeDraw

Spec == Init /\ [][Next]_vars

-----------------------------------------------------------------------------
(* Properties.                                                             *)

MoveOps == {"make_move", "make_move_uci", "make_move_san"}
LineOps == {"make_moves_uci", "make_moves_san"}
AllMoves == Squares \X Squares

\* the move a token of a line stands for on board b, or None
TokenMove(op, b, tok) ==
    IF op = "make_moves_uci" THEN from_uci(tok) ELSE san_to_move(b, tok)

\* make_move of each move of the line in order: "Ok" with the board they leave,
\* or "Rejected" as soon as one of them is no move or is rejected
RECURSIVE PlayedInOrder(_, _, _)
PlayedInOrder(op, b, line) ==
    IF line = <<>> THEN Ret(b, "Ok")
    ELSE LET m == TokenMove(op, b, Head(line))
         IN  IF m = None \/ make_move(b, m).res # "Ok"
             THEN Ret(b, "Rejected")
             ELSE PlayedInOrder(op, make_move(b, m).board, Tail(line))

\* C1: a line application either succeeds and leaves the board that make_move of
\* each move in order produces, or fails and leaves every field of the board as
\* it was before the call.
C1_LineAllOrNothing ==
    last.op \in LineOps =>
        LET want == PlayedInOrder(last.op, pre, last.arg)
        IN  IF want.res = "Ok"
            THEN last.res = "Ok" /\ board = want.board
            ELSE last.res # "Ok" /\ board = pre

\* C1 witness: a line whose first move ends the game and whose second move
\* therefore fails; nothing of it is applied.
C1_Witness ==
    /\ last.op \in LineOps
    /\ Len(last.arg) = 2
    /\ last.res # "Ok"
    /\ TokenMove(last.op, pre, last.arg[1]) # None
    /\ make_move(pre, TokenMove(last.op, pre, last.arg[1])).res = "Ok"
    /\ ~make_move(pre, TokenMove(last.op, pre, last.arg[1])).board.ongoing
    /\ board = pre

\* the fields the round trip is observed on
Observed(b) ==
    <<b.position, b.halfmove_clock, b.fullmove_number, b.position_history,
      b.move_history, b.halfmove_clock_history, b.ongoing, b.resigned_side,
      b.draw_agreed>>

\* C2: in every reachable state, for every move that make_move accepts there,
\* make_move followed by undo_move restores position, both counters, the three
\* histories, ongoing, resigned_side and draw_agreed.
C2_ApplyUndoRoundTrip ==
    \A m \in AllMoves :
        LET r == make_move(board, m)
        IN  r.res = "Ok" =>
                /\ undo_move(r.board).res = "Ok"
                /\ Observed(undo_move(r.board).board) = Observed(board)

\* C2 witness: undo_move has just undone a move made by black, and the board it
\* was called on is what make_move of that move produces from the board it left.
C2_Witness ==
    /\ last.op = "undo_move"
    /\ last.res = "Ok"
    /\ side_to_move(board) = Black
    /\ \E m \in AllMoves : make_move(board, m) = Ret(pre, "Ok")

\* C3: make_move rejects a move exactly when the game is over or the move is not
\* a legal move of the position, the notation wrappers reject whatever make_move
\* rejects, and a rejected call leaves every field of the board unchanged.
C3_RejectedMoveMutatesNothing ==
    /\ \A m \in AllMoves :
          LET r == make_move(board, m)
          IN  /\ r.res # "Ok" <=>
                    (~board.ongoing \/ m \notin gen_non_illegal_moves(board.position))
              /\ r.res # "Ok" => r.board = board
    /\ \A uci \in UciInputs :
          LET r == make_move_uci(board, uci)
          IN  /\ r.res # "Ok" <=>
                    (from_uci(uci) = None \/ make_move(board, from_uci(uci)).res # "Ok")
              /\ r.res # "Ok" => r.board = board
    /\ \A san \in SanInputs :
          LET r == make_move_san(board, san)
          IN  /\ ~board.ongoing => r.res # "Ok"
              /\ r.res # "Ok" => r.board = board
    /\ (last.op \in MoveOps /\ last.res # "Ok") => board = pre

\* C3 witness: after two successful moves a make_move_uci of a well-formed but
\* illegal move fails in a game that is still ongoing, and the board stays.
C3_Witness ==
    /\ last.op = "make_move_uci"
    /\ last.res = "IllegalMoveUci"
    /\ board.ongoing
    /\ Len(board.move_history) = 2
    /\ board = pre

\* the five position-derived terminal conditions, fivefold repetition being the
\* fifth occurrence of the current position (four in the history and itself)
FifthOccurrence(b) == RepetitionCount(b) + 1 >= 5

TerminalCondition(b) ==
    \/ FifthOccurrence(b)
    \/ b.halfmove_clock = 150
    \/ position_is_stalemate(b.position)
    \/ position_is_insufficient_material(b.position)
    \/ position_is_checkmate(b.position)
    \/ b.resigned_side # None
    \/ b.draw_agreed

\* C4 (as claimed): ongoing is false if and only if at least one terminal
\* condition holds.
C4_OngoingIffNoTerminalCondition ==
    ~board.ongoing <=> TerminalCondition(board)

\* C5 (as claimed): game_result is None exactly when is_ongoing is true, and the
\* panic at the end of the precedence chain is never reached.
C5_ResultConsistentNoPanic ==
    /\ game_result(board) = None <=> is_ongoing(board)
    /\ game_result(board) # "panic"

\* C6 (as claimed): a move that makes the current position occur for the fifth
\* time (four equal entries in position_history and itself) ends the game, and
\* without checkmate or stalemate the result is Draw(FivefoldRepetition).
C6_FifthOccurrenceEndsGame ==
    ( /\ last.op \in MoveOps \cup LineOps
      /\ last.res = "Ok"
      /\ board.move_history # pre.move_history
      /\ RepetitionCount(board) = 4
      /\ ~is_checkmate(board)
      /\ ~is_stalemate(board) )
    => /\ ~board.ongoing
       /\ game_result(board) = <<"Draw", "FivefoldRepetition">>

\* C7 (as claimed): a successful undo_move decrements fullmove_number by one
\* when the side to move after the undo is white, and leaves it otherwise.
C7_UndoDecrementsWhenWhiteToMoveAfter ==
    (last.op = "undo_move" /\ last.res = "Ok") =>
        board.fullmove_number =
            pre.fullmove_number - (IF side_to_move(board) = White THEN 1 ELSE 0)

\* C7 (amended): a successful undo_move decrements fullmove_number by one when
\* the side to move before the undo is white, that is when the undone move was
\* made by black, and leaves it unchanged when the undone move was made by white.
C7_UndoDecrementsWhenBlackMoveUndone ==
    (last.op = "undo_move" /\ last.res = "Ok") =>
        /\ side_to_move(pre) = White => board.fullmove_number = pre.fullmove_number - 1
        /\ side_to_move(pre) = Black => board.fullmove_number = pre.fullmove_number
        /\ side_to_move(board) = Opp(side_to_move(pre))

\* C7 witness: undo_move has undone a move by black and decremented the number.
C7_Witness ==
    /\ last.op = "undo_move"
    /\ last.res = "Ok"
    /\ side_to_move(pre) = White
    /\ board.fullmove_number = pre.fullmove_number - 1

\* the number of moves of move_history that black played
BlackMoves(b) ==
    Cardinality({i \in DOMAIN b.move_history : b.position_history[i].side = Black})

\* C8: in every reachable state fullmove_number is the initial snapshot's
\* fullmove number plus the number of moves in move_history played by black.
C8_FullmoveCountsBlackMoves ==
    board.fullmove_number = board.initial_fen.fullmove_number + BlackMoves(board)

\* C8 witness: after an undo_move, a game with moves of both sides left in it.
C8_Witness ==
    /\ last.op = "undo_move"
    /\ last.res = "Ok"
    /\ BlackMoves(board) >= 1
    /\ BlackMoves(board) < Len(board.move_history)

\* C9: the three histories always have the same length; a successful make_move
\* grows each by exactly one and a successful undo_move shrinks each by one.
C9_HistoriesInStep ==
    /\ Len(board.position_history) = Len(board.move_history)
    /\ Len(board.move_history) = Len(board.halfmove_clock_history)
    /\ (last.op \in MoveOps /\ last.res = "Ok") =>
          /\ Len(board.position_history) = Len(pre.position_history) + 1
          /\ Len(board.move_history) = Len(pre.move_history) + 1
          /\ Len(board.halfmove_clock_history) = Len(pre.halfmove_clock_history) + 1
    /\ (last.op = "undo_move" /\ last.res = "Ok") =>
          /\ Len(board.position_history) = Len(pre.position_history) - 1
          /\ Len(board.move_history) = Len(pre.move_history) - 1
          /\ Len(board.halfmove_clock_history) = Len(pre.halfmove_clock_history) - 1

\* C9 witness: an undo_move that leaves moves in the histories.
C9_Witness ==
    /\ last.op = "undo_move"
    /\ last.res = "Ok"
    /\ Len(board.halfmove_clock_history) >= 2

\* C10: every successful undo_move leaves ongoing = true, resigned_side = None
\* and draw_agreed = false, whatever had ended the game.
C10_UndoRevivesGame ==
    (last.op = "undo_move" /\ last.res = "Ok") =>
        /\ board.ongoing
        /\ board.resigned_side = None
        /\ ~board.draw_agreed

\* C10 witness: undo_move on a board that was resigned after its last move.
C10_Witness ==
    /\ last.op = "undo_move"
    /\ last.res = "Ok"
    /\ ~pre.ongoing
    /\ pre.resigned_side # None

\* the board after k calls of undo_move
RECURSIVE UndoTimes(_, _)
UndoTimes(b, k) == IF k = 0 THEN b ELSE UndoTimes(undo_move(b).board, k - 1)

\* C11: undo_move on a board with no move played fails with NoMovesPlayed and
\* leaves every field unchanged; on a board with n moves exactly n consecutive
\* calls succeed, each removing one move, and call n + 1 fails.
C11_UndoWalksHistoryBack ==
    LET n == Len(board.move_history)
    IN  /\ board.move_history = <<>> => undo_move(board) = Ret(board, "NoMovesPlayed")
        /\ \A k \in 0 .. n :
              /\ UndoTimes(board, k).move_history = SubSeq(board.move_history, 1, n - k)
              /\ undo_move(UndoTimes(board, k)).res =
                     (IF k < n THEN "Ok" ELSE "NoMovesPlayed")
        /\ undo_move(UndoTimes(board, n)).board = UndoTimes(board, n)
        /\ (last.op = "undo_move" /\ last.res # "Ok") =>
              /\ last.res = "NoMovesPlayed"
              /\ pre.move_history = <<>>
              /\ board = pre

\* C11 witness: undo_move fails on a board resigned before any move was played,
\* and the resignation stays in force.
C11_Witness ==
    /\ last.op = "undo_move"
    /\ last.res = "NoMovesPlayed"
    /\ board.resigned_side # None
    /\ ~board.ongoing

GameOverErrors == {"GameOverError::Resignation", "GameOverError::AgreementDraw"}

\* C12: resign and agree_draw succeed only when ongoing is true; when ongoing is
\* false they fail with a game-over error and leave every field unchanged.
C12_ResignAndDrawNeedOngoing ==
    /\ \A side \in Color :
          LET r == resign(board, side)
          IN  /\ r.res = "Ok" <=> board.ongoing
              /\ r.res # "Ok" => (r.res \in GameOverErrors /\ r.board = board)
    /\ LET r == agree_draw(board)
       IN  /\ r.res = "Ok" <=> board.ongoing
           /\ r.res # "Ok" => (r.res \in GameOverErrors /\ r.board = board)
    /\ (last.op \in {"resign", "agree_draw"} /\ last.res = "Ok") => pre.ongoing
    /\ (last.op \in {"resign", "agree_draw"} /\ last.res # "Ok") =>
          (~pre.ongoing /\ board = pre)

\* C12 witness: resign fails on a board already drawn by agreement.
C12_Witness ==
    /\ last.op = "resign"
    /\ last.res \in GameOverErrors
    /\ pre.draw_agreed
    /\ board = pre

\* C13: in no reachable state is resigned_side set while draw_agreed is true.
C13_ResignationExcludesAgreedDraw ==
    ~(board.resigned_side # None /\ board.draw_agreed)

\* C13 witness: agree_draw was tried on a resigned board with moves played, and
\* only the resignation stands.
C13_Witness ==
    /\ last.op = "agree_draw"
    /\ last.res \in GameOverErrors
    /\ board.resigned_side # None
    /\ ~board.draw_agreed
    /\ board.move_history # <<>>

\* the conditions in the order of precedence, each with its result; fivefold
\* says whether fivefold repetition holds
PrecedenceOrder(b, fivefold) ==
    << <<b.draw_agreed, <<"Draw", "Agreement">> >>,
       <<b.resigned_side # None, <<"Wins", Opp(b.resigned_side), "Resignation">> >>,
       <<position_is_checkmate(b.position), <<"Wins", Opp(b.position.side), "Checkmate">> >>,
       <<position_is_stalemate(b.position), <<"Draw", "Stalemate", b.position.side>> >>,
       <<fivefold, <<"Draw", "FivefoldRepetition">> >>,
       <<b.halfmove_clock = 150, <<"Draw", "SeventyFiveMoveRule">> >>,
       <<position_is_insufficient_material(b.position), <<"Draw", "InsufficientMaterial">> >> >>

Matches(order) == {i \in DOMAIN order : order[i][1]}

\* the result of the first condition of the order that holds
FirstMatch(order) ==
    order[CHOOSE i \in Matches(order) : \A j \in Matches(order) : i <= j][2]

\* C14 (as claimed): when ongoing is false, game_result is the result of the
\* first condition that holds, in the order agreed draw, resignation,
\* checkmate, stalemate, fivefold repetition (the fifth occurrence of the
\* position), seventy-five-move rule, insufficient material.
C14_ResultFollowsPrecedence ==
    LET order == PrecedenceOrder(board, FifthOccurrence(board))
    IN  (~board.ongoing /\ Matches(order) # {}) => game_result(board) = FirstMatch(order)

\* The same order over the predicates as the code computes them (fivefold
\* repetition being is_fivefold_repetition).
ResultFollowsCodePredicates ==
    LET order == PrecedenceOrder(board, is_fivefold_repetition(board))
    IN  (~board.ongoing /\ Matches(order) # {}) => game_result(board) = FirstMatch(order)

\* the third occurrence of the current position (two in the history and itself)
ThirdOccurrence(b) == RepetitionCount(b) + 1 = 3

\* a board on which a claimable fact holds and no terminal condition does stays
\* ongoing and still accepts the moves of its position
ClaimableFactsDoNotEndGame ==
    ( /\ board.halfmove_clock = 100 \/ ThirdOccurrence(board) \/ is_threefold_repetition(board)
      /\ ~TerminalCondition(board) )
    => /\ board.ongoing
       /\ gen_legal_moves(board) = gen_non_illegal_moves(board.position)
       /\ gen_legal_moves(board) # {}

\* C15 (as claimed): is_fifty_move_rule is true when halfmove_clock is 100,
\* is_threefold_repetition is true at a threefold repetition (the third
\* occurrence of the position), and neither ends the game: with no terminal
\* condition the game stays ongoing and moves are still accepted.
C15_ClaimablePredicates ==
    /\ board.halfmove_clock = 100 => is_fifty_move_rule(board)
    /\ ThirdOccurrence(board) => is_threefold_repetition(board)
    /\ ClaimableFactsDoNotEndGame

\* a SAN text that is no move at all: no piece letter, or no square name
MalformedSan(san) ==
    ~(Len(san) = 2 /\ san[1] \in {"K", "N", "R", "P"} /\ san[2] \in DOMAIN sq_to_idx)

\* a SAN text that denotes a move of the position which the board does not accept
IllegalSan(b, san) ==
    /\ position_san_to_move(b.position, san) # None
    /\ ~is_legal(b, position_san_to_move(b.position, san))

\* make_move_uci tells a string that is no move from a move that is rejected
UciDistinguishes ==
    \A uci \in UciInputs :
        LET r == make_move_uci(board, uci)
        IN  /\ r.res = "InvalidUci" <=> from_uci(uci) = None
            /\ r.res = "IllegalMoveUci" <=>
                  (from_uci(uci) # None /\ make_move(board, from_uci(uci)).res # "Ok")
            /\ r.res \in {"Ok", "InvalidUci", "IllegalMoveUci"}

\* C16 (as claimed): both wrappers report one error for a string that is no move
\* and a different error for a move that is not legal or comes after the game
\* is over.
C16_WrappersDistinguish ==
    /\ UciDistinguishes
    /\ \A a, c \in SanInputs :
          (MalformedSan(a) /\ IllegalSan(board, c)) =>
              make_move_san(board, a).res # make_move_san(board, c).res

\* C16 (amended): make_move_uci reports InvalidUci for a string that is no move
\* and IllegalMove for a move that make_move rejects; make_move_san reports the
\* one InvalidSanMoveError in both cases.
C16_UciDistinguishesSanDoesNot ==
    /\ UciDistinguishes
    /\ \A san \in SanInputs :
          LET r == make_move_san(board, san)
          IN  /\ r.res \in {"Ok", "InvalidSanMove"}
              /\ (MalformedSan(san) \/ IllegalSan(board, san)) => r.res = "InvalidSanMove"

\* C16 witness: after the game is over make_move_san of a text that denotes a
\* move of the position fails with InvalidSanMoveError.
C16_Witness ==
    /\ last.op = "make_move_san"
    /\ last.res = "InvalidSanMove"
    /\ ~pre.ongoing
    /\ IllegalSan(pre, last.arg[1])

\* the halfmove clock after move m is played in position pos with the clock at c
ClockAfter(c, pos, m) ==
    IF (pos.content[m[1]] # Empty /\ pos.content[m[1]][1] = "P") \/ pos.content[m[2]] # Empty
    THEN 0
    ELSE c + 1

\* the halfmove clock that held before move i, replayed from the initial snapshot
RECURSIVE ClockBefore(_, _)
ClockBefore(b, i) ==
    IF i = 1 THEN b.initial_fen.halfmove_clock
    ELSE ClockAfter(ClockBefore(b, i - 1), b.position_history[i - 1], b.move_history[i - 1])

\* C17: a successful make_move sets halfmove_clock to 0 after a pawn move or a
\* capture and to the old clock plus 1 otherwise, and appends the clock from
\* before the move; so halfmove_clock_history[i] is the clock that held in
\* position_history[i] before move_history[i] was played.
C17_ClockAndItsHistory ==
    LET n == Len(board.move_history)
    IN  /\ \A i \in 1 .. n : board.halfmove_clock_history[i] = ClockBefore(board, i)
        /\ board.halfmove_clock = ClockBefore(board, n + 1)
        /\ (last.op \in MoveOps /\ last.res = "Ok") =>
              /\ board.halfmove_clock_history[n] = pre.halfmove_clock
              /\ board.halfmove_clock =
                     ClockAfter(pre.halfmove_clock, pre.position, board.move_history[n])

\* C17 witness: a capture has reset a clock that was running.
C17_Witness ==
    /\ last.op \in MoveOps
    /\ last.res = "Ok"
    /\ pre.halfmove_clock > 0
    /\ pre.position.content[board.move_history[Len(board.move_history)][2]] # Empty
    /\ board.halfmove_clock = 0
    /\ board.halfmove_clock_history[Len(board.move_history)] = pre.halfmove_clock

\* the fullmove number that was current when move i was played
FullmoveWhenPlayed(b, i) ==
    b.initial_fen.fullmove_number
        + Cardinality({j \in 1 .. (i - 1) : b.position_history[j].side = Black})

\* the words of move i: its number where one is due, and its SAN text read in
\* the position it was played from
WordsOfMove(b, i) ==
    LET san == position_move_to_san(b.position_history[i], b.move_history[i])
    IN  IF b.position_history[i].side = White
        THEN <<<<FullmoveWhenPlayed(b, i), ".">>, san>>
        ELSE IF i = 1 /\ b.initial_fen.position.side = Black
             THEN <<<<FullmoveWhenPlayed(b, i), "...">>, san>>
             ELSE <<san>>

RECURSIVE WordsOfMoves(_, _)
WordsOfMoves(b, n) ==
    IF n = 0 THEN <<>> ELSE WordsOfMoves(b, n - 1) \o WordsOfMove(b, n)

\* C18: gen_movetext renders move_history in order, each move from the position
\* of position_history at its index, with "N." before every move by white (N
\* the fullmove number current when it was played) and "N..." only before a
\* first move by black; after undo_move the undone move is no longer in it.
C18_MovetextFollowsHistory ==
    /\ gen_movetext(board) = WordsOfMoves(board, Len(board.move_history))
    /\ (last.op = "undo_move" /\ last.res = "Ok") =>
          gen_movetext(pre) =
              gen_movetext(board) \o WordsOfMove(pre, Len(pre.move_history))

\* C18 witness: a game begun with black to move, three or more moves still
\* recorded after an undo_move.
C18_Witness ==
    /\ last.op = "undo_move"
    /\ last.res = "Ok"
    /\ board.initial_fen.position.side = Black
    /\ Len(board.move_history) >= 3

\* C19: on a board constructed from a snapshot with halfmove clock at most 150
\* the clock never exceeds 150, and at 150 no move is accepted.
C19_ClockNeverPasses150 ==
    board.initial_fen.halfmove_clock <= 150 =>
        /\ board.halfmove_clock <= 150
        /\ board.halfmove_clock = 150 =>
              /\ ~board.ongoing
              /\ \A m \in AllMoves : make_move(board, m).res # "Ok"

\* C19 witness: the clock has reached 150 by moves, and make_move of a move of
\* the position has been rejected.
C19_Witness ==
    /\ board.halfmove_clock = 150
    /\ board.initial_fen.halfmove_clock < 150
    /\ last.op = "make_move"
    /\ last.res = "IllegalMove"
    /\ last.arg[1] \in gen_non_illegal_moves(board.position)

\* C20: the number of entries of position_history equal to the current position
\* is at most 5, and no move is accepted where it is 5.
C20_RepetitionCountNeverPasses5 ==
    /\ RepetitionCount(board) <= 5
    /\ RepetitionCount(board) = 5 =>
          /\ ~board.ongoing
          /\ \A m \in AllMoves : make_move(board, m).res # "Ok"

\* C20 witness: a move has brought the count to 5 in a position that has moves.
C20_Witness ==
    /\ RepetitionCount(board) = 5
    /\ last.op \in MoveOps \cup LineOps
    /\ last.res = "Ok"
    /\ gen_non_illegal_moves(board.position) # {}

====
